---- MODULE Spec2Model ----
(***************************************************************************)
(* A model of src/Forum.py: the class Forum (a facade over one table of a  *)
(* remote key-value service) and the demo script that drives it.           *)
(*                                                                         *)
(* The program's state is the cached table handle (self.table), the        *)
(* locals of scan_forums while its loop runs, and the demo script's        *)
(* position.  The remote service is the environment: a set of tables,      *)
(* each a map from the partition key Name to an item.  Every remote        *)
(* request may fail with a service error (ClientError) chosen by the       *)
(* environment; a failed request has no effect on the service.             *)
(***************************************************************************)
EXTENDS Integers, Sequences, FiniteSets, TLC

\* ------------------------------------------------------------------ bounds

\* The most items the service puts on one page of a scan.
MaxPageSize == 2
\* The most empty pages (no items, but a continuation token) per scan.
MaxEmptyPages == 1

\* ------------------------------------------------------------- input sets

TableNames == {"Forum", "Archive"}
Keys == {"Amazon DynamoDB", "Amazon S3", "SQL server"}
\* The order in which the service's scan walks the keys of a table.
KeyOrder == <<"Amazon S3", "SQL server", "Amazon DynamoDB">>
\* (category, messages, threads, views): the tuple the demo script adds
\* (line 277) and one that differs from it in every field.
AttrTuples ==
    { <<"Amazon Web Services", 4, 2, 1000>>,
      <<"Databases", 7, 5, 3000>> }
\* Error codes the environment may inject into a request.
FaultCodes == {"ResourceNotFoundException", "InternalServerError"}
NoFault == "none"
Faults == FaultCodes \cup {NoFault}

\* Python's None, for the table handle.
None == "None"

\* --------------------------------------------------------------- the state

VARIABLES
    table,       \* self.table: None or the name of the table the handle is of
    tables,      \* the service: table name -> [exists, items]
    pc,          \* "idle", or "scan" while scan_forums' loop runs
    forums,      \* scan_forums: the records accumulated so far
    scan_kwargs, \* scan_forums: scan_kwargs['ExclusiveStartKey'], or NoKey
    start_key,   \* scan_forums: start_key
    done,        \* scan_forums: done
    sent,        \* the ExclusiveStartKey of each scan request of this scan
    got,         \* the LastEvaluatedKey of each scan response of this scan
    empties,     \* empty pages the service has returned in this scan
    last,        \* the operation that finished last: its call and outcome
    prev,        \* the call before it, when it was a successful write
    mpc,         \* the demo script's position ("api": no script)
    forum_data,  \* the demo script's forum_data
    forums_exists, \* the demo script's forums_exists
    calls        \* the operations the demo script has invoked, in order

vars == << table, tables, pc, forums, scan_kwargs, start_key, done, sent, got,
           empties, last, prev, mpc, forum_data, forums_exists, calls >>

scanvars == << forums, scan_kwargs, start_key, done, sent, got, empties >>
mainvars == << mpc, forum_data, forums_exists, calls >>

\* ------------------------------------------------------------------ values

\* The item add_forum builds (lines 170-176).
Item(name, category, messages, threads, views) ==
    [Name |-> name, Category |-> category, Messages |-> messages,
     Threads |-> threads, Views |-> views]

\* A key dictionary as the service returns it in LastEvaluatedKey and takes
\* it in ExclusiveStartKey: {'Name': k} is <<k>>, the empty dictionary {}
\* is <<>>; some = FALSE is Python's None (no such entry in the response).
KeyOf(k) == [some |-> TRUE, name |-> <<k>>]
EmptyKey == [some |-> TRUE, name |-> <<>>]
NoKey == [some |-> FALSE, name |-> <<>>]

\* Python's truth value of start_key (line 144): None and {} are false.
Truthy(t) == t.some /\ Len(t.name) > 0
\* start_key is None (line 149).
IsNone(t) == ~t.some

NoTable == [exists |-> FALSE, items |-> << >>]

\* The keys a table holds.
KeysOf(t) == DOMAIN tables[t].items

\* PutInto as a put that keeps an item that is there (a conditional put).
PutIfAbsent(items, it) ==
    [k \in (DOMAIN items) \cup {it.Name} |-> IF k \in DOMAIN items THEN items[k] ELSE it]

\* The items of table t with item it put: created, or replaced whole.
PutInto(items, it) ==
    [k \in (DOMAIN items) \cup {it.Name} |-> IF k = it.Name THEN it ELSE items[k]]

\* Without as a delete that removes nothing.
KeepAll(items, name) == items

\* The items without key name.
Without(items, name) ==
    [k \in (DOMAIN items) \ {name} |-> items[k]]

\* The code the service answers a request on table t with: the injected
\* fault, or ResourceNotFoundException when there is no such table.
Code(t, f) ==
    IF f # NoFault THEN f
    ELSE IF ~tables[t].exists THEN "ResourceNotFoundException"
    ELSE NoFault

\* What an operation leaves in last: the call (op, arg, attrs), how it ended
\* (outcome, result), the code of the request that failed (code), the
\* requests it made (nreq), and, from the state it was called in, the handle
\* (was) and whether the handle's table held the key arg (had).
Outcome(op, arg, attrs, outcome, code, nreq, result) ==
    [op |-> op, arg |-> arg, attrs |-> attrs, outcome |-> outcome,
     code |-> code, nreq |-> nreq, result |-> result,
     was |-> table,
     had |-> table # None /\ arg \in DOMAIN tables[table].items]

\* What is kept of the call before the last one.
Summary(l) ==
    IF l.op \in {"add_forum", "update_forum", "delete_forum"} /\ l.outcome = "ok"
    THEN [op |-> l.op, arg |-> l.arg, attrs |-> l.attrs, had |-> l.had]
    ELSE [op |-> "other", arg |-> "", attrs |-> << >>, had |-> FALSE]

\* An operation that is one step: last and prev move on.
Finish(op, arg, attrs, outcome, code, nreq, result) ==
    /\ last' = Outcome(op, arg, attrs, outcome, code, nreq, result)
    /\ prev' = Summary(last)

\* scan_forums ends; it became the last operation when it started.
FinishScan(arg, outcome, code, nreq, result) ==
    /\ last' = Outcome("scan_forums", arg, << >>, outcome, code, nreq, result)
    /\ UNCHANGED prev

\* self.table is None: the attribute access on it raises AttributeError
\* before any request is made.
NoHandle(op, arg, attrs) ==
    /\ Finish(op, arg, attrs, "AttributeError", NoFault, 0, << >>)
    /\ UNCHANGED << table, tables >>

\* ------------------------------------------------- the table's lifecycle

\* ExistsHandle as a store of the table before the load, whatever it answers.
ExistsHandleAlways(old, table_name, code) == table_name

\* exists (lines 27-42): the handle after the load was answered with code.
\* Only the else branch of the try (no error) stores the table.
ExistsHandle(old, table_name, code) ==
    IF code = NoFault THEN table_name ELSE old

\* exists: what the caller gets for the load's code: True, False, or the
\* error re-raised (line 39) for every code but ResourceNotFoundException.
ExistsOutcome(code) ==
    IF code = NoFault THEN [outcome |-> "ok", result |-> TRUE]
    ELSE IF code = "ResourceNotFoundException"
         THEN [outcome |-> "ok", result |-> FALSE]
         ELSE [outcome |-> "ClientError", result |-> FALSE]

exists(table_name, f) ==
    LET code == Code(table_name, f)
        o == ExistsOutcome(code)
    IN  /\ table' = ExistsHandle(table, table_name, code)
        /\ Finish("exists", table_name, << >>, o.outcome, code, 1,
                  IF o.outcome = "ok" THEN o.result ELSE << >>)
        /\ UNCHANGED tables

\* create_table (lines 52-69).  The create request is refused when the
\* table is there already; once it is accepted the handle is stored (line
\* 53) and the wait for the table follows (line 62).  A failed wait raises
\* (WaiterError) with the handle already stored; whether the table came to
\* exist then is the service's choice (made).
create_table(table_name, f1, f2, made) ==
    LET code1 == IF f1 # NoFault THEN f1
                 ELSE IF tables[table_name].exists THEN "ResourceInUseException"
                 ELSE NoFault
    IN  IF code1 # NoFault
        THEN /\ Finish("create_table", table_name, << >>, "ClientError", code1, 1, << >>)
             /\ UNCHANGED << table, tables >>
        ELSE /\ table' = table_name
             /\ tables' = [tables EXCEPT ![table_name] =
                             [exists |-> (f2 = NoFault) \/ made, items |-> << >>]]
             /\ IF f2 # NoFault
                THEN Finish("create_table", table_name, << >>, "WaiterError", f2, 2, << >>)
                ELSE Finish("create_table", table_name, << >>, "ok", NoFault, 2, table_name)

\* DeleteTableHandle as a handle cleared before the drop, whatever it answers.
DeleteTableHandleAlways(old, code) == None

\* delete_table (lines 234-241): the handle after the drop was answered
\* with code.  Line 236 runs only when line 235 did not raise.
DeleteTableHandle(old, code) ==
    IF code = NoFault THEN None ELSE old

delete_table(f) ==
    IF table = None
    THEN NoHandle("delete_table", None, << >>)
    ELSE LET code == Code(table, f)
         IN  /\ table' = DeleteTableHandle(table, code)
             /\ tables' = IF code = NoFault
                          THEN [tables EXCEPT ![table] = NoTable]
                          ELSE tables
             /\ Finish("delete_table", table, << >>,
                       IF code = NoFault THEN "ok" ELSE "ClientError", code, 1, << >>)

\* ------------------------------------------------------------ the records

\* write_batch (lines 85-93): every record is put through the batch writer,
\* which sends what it buffered when the with block ends: one request for
\* the batches used here (fewer records than the writer's flush size), none
\* when there is nothing to write.
RECURSIVE PutAll(_, _)
PutAll(items, recs) ==
    IF recs = << >> THEN items
    ELSE PutAll(PutInto(items, Head(recs)), Tail(recs))

write_batch(recs, f) ==
    IF table = None
    THEN NoHandle("write_batch", None, << >>)
    ELSE IF recs = << >>
    THEN /\ Finish("write_batch", table, << >>, "ok", NoFault, 0, << >>)
         /\ UNCHANGED << table, tables >>
    ELSE LET code == Code(table, f)
         IN  /\ tables' = IF code = NoFault
                          THEN [tables EXCEPT ![table].items = PutAll(@, recs)]
                          ELSE tables
             /\ Finish("write_batch", table, << >>,
                       IF code = NoFault THEN "ok" ELSE "ClientError", code, 1, << >>)
             /\ UNCHANGED table

\* get_forum (lines 119-128): response['Item'] of the answer to get_item.
\* The answer for a key the table does not hold has no 'Item' entry, and
\* the subscript raises KeyError.
GetOutcome(items, name) ==
    IF name \in DOMAIN items
    THEN [outcome |-> "ok", result |-> items[name]]
    ELSE [outcome |-> "KeyError", result |-> << >>]

get_forum(name, f) ==
    IF table = None
    THEN NoHandle("get_forum", name, << >>)
    ELSE LET code == Code(table, f)
             o == GetOutcome(tables[table].items, name)
         IN  /\ IF code # NoFault
                THEN Finish("get_forum", name, << >>, "ClientError", code, 1, << >>)
                ELSE Finish("get_forum", name, << >>, o.outcome, NoFault, 1, o.result)
             /\ UNCHANGED << table, tables >>

\* add_forum (lines 168-182): one put_item of the item built from the
\* arguments.
AddOutcome(code) ==
    IF code = NoFault THEN "ok" ELSE "ClientError"

add_forum(name, category, messages, threads, views, f) ==
    IF table = None
    THEN NoHandle("add_forum", name, <<category, messages, threads, views>>)
    ELSE LET code == Code(table, f)
         IN  /\ tables' = IF code = NoFault
                          THEN [tables EXCEPT ![table].items =
                                  PutInto(@, Item(name, category, messages, threads, views))]
                          ELSE tables
             /\ Finish("add_forum", name, <<category, messages, threads, views>>,
                       AddOutcome(code), code, 1, << >>)
             /\ UNCHANGED table

\* UpdateInto as an update under the condition that the item is there.
UpdateIfPresent(items, name, category, messages, threads, views) ==
    IF name \in DOMAIN items
    THEN PutInto(items, [items[name] EXCEPT !.Category = category, !.Messages = messages,
                                            !.Threads = threads, !.Views = views])
    ELSE items

\* update_forum's request (lines 196-206): "set Category=:c, Messages=:m,
\* Threads=:t, #Views=:v" on the item with key name, under no condition
\* expression: the service sets the four attributes on the item with that
\* key, and an item that is not there is created with the key and the four.
UpdateInto(items, name, category, messages, threads, views) ==
    PutInto(items,
            IF name \in DOMAIN items
            THEN [items[name] EXCEPT !.Category = category, !.Messages = messages,
                                     !.Threads = threads, !.Views = views]
            ELSE Item(name, category, messages, threads, views))

\* UpdatedNew as ReturnValues="UPDATED_OLD": the attributes as they were.
UpdatedOld(old, new) ==
    [Category |-> old.Category, Messages |-> old.Messages,
     Threads |-> old.Threads, Views |-> old.Views]

\* ReturnValues="UPDATED_NEW" (line 206): the attributes the expression
\* set, as they are after the update.
UpdatedNew(old, new) ==
    [Category |-> new.Category, Messages |-> new.Messages,
     Threads |-> new.Threads, Views |-> new.Views]

\* UpdateOutcome as an except clause that logs and does not re-raise.
UpdateSwallow(code) == "ok"

\* update_forum's except clause (lines 207-212) and return (line 214).
UpdateOutcome(code) ==
    IF code = NoFault THEN "ok" ELSE "ClientError"

update_forum(name, category, messages, threads, views, f) ==
    IF table = None
    THEN NoHandle("update_forum", name, <<category, messages, threads, views>>)
    ELSE LET code == Code(table, f)
             old == tables[table].items
             new == UpdateInto(old, name, category, messages, threads, views)
             \* the item before and after the update (blank when there is none)
             before == IF name \in DOMAIN old THEN old[name]
                       ELSE Item(name, "", 0, 0, 0)
             after == IF name \in DOMAIN new THEN new[name] ELSE before
         IN  /\ tables' = IF code = NoFault
                          THEN [tables EXCEPT ![table].items = new]
                          ELSE tables
             /\ Finish("update_forum", name, <<category, messages, threads, views>>,
                       UpdateOutcome(code), code, 1,
                       IF UpdateOutcome(code) = "ok"
                       THEN UpdatedNew(before, after) ELSE << >>)
             /\ UNCHANGED table

\* delete_forum (lines 222-228): one delete_item, under no condition: the
\* service answers the same whether or not the key was there.
DeleteOutcome(code) ==
    IF code = NoFault THEN "ok" ELSE "ClientError"

delete_forum(name, f) ==
    IF table = None
    THEN NoHandle("delete_forum", name, << >>)
    ELSE LET code == Code(table, f)
         IN  /\ tables' = IF code = NoFault
                          THEN [tables EXCEPT ![table].items = Without(@, name)]
                          ELSE tables
             /\ Finish("delete_forum", name, << >>, DeleteOutcome(code), code, 1, << >>)
             /\ UNCHANGED table

\* ---------------------------------------------------------------- the scan

\* The service's side of a scan.  The keys of table t in scan order:
Present(t) == SelectSeq(KeyOrder, LAMBDA k : k \in KeysOf(t))

\* Where a scan that starts after key esk begins: the number of keys of t
\* at or before it in scan order (0 with no start key).
Pos(t, esk) ==
    IF ~Truthy(esk) THEN 0
    ELSE LET at == CHOOSE i \in 1..Len(KeyOrder) : KeyOrder[i] = esk.name[1]
         IN  Cardinality({i \in 1..at : KeyOrder[i] \in KeysOf(t)})

\* The key the service names as the last one it evaluated, at position p:
\* the p-th key, or the empty key when it has evaluated none.
TokenAt(t, p) == IF p = 0 THEN EmptyKey ELSE KeyOf(Present(t)[p])

\* The answer to a scan of t starting after esk, the service evaluating n
\* keys: n = 0 is an empty page that carries a token; a page that ends on
\* the table's last key carries a token when more says so, and then the
\* next page is empty and carries none.
ScanResponse(t, esk, n, more) ==
    LET S == Present(t)
        p == Pos(t, esk)
        q == IF p + n < Len(S) THEN p + n ELSE Len(S)
    IN  [Items |-> [i \in 1..(q - p) |-> tables[t].items[S[p + i]]],
         LastEvaluatedKey |->
            IF n = 0 THEN TokenAt(t, p)
            ELSE IF q < Len(S) \/ (more /\ q > p) THEN TokenAt(t, q)
            ELSE NoKey]

\* Lines 144-145: the arguments of the next scan request.  The start key is
\* attached when it is true in Python's sense; scan_kwargs keeps what it held.
NextKwargs(kwargs, key) == IF Truthy(key) THEN key ELSE kwargs

\* Extend as an assignment of the page to forums.
Overwrite(acc, items) == items

\* Line 147: forums.extend(response.get('Items', [])).
Extend(acc, items) == acc \o items

\* Line 149: done = start_key is None.
IsDone(key) == IsNone(key)

\* Lines 138-142: scan_forums starts, and is the last operation from now.
scan_begin ==
    /\ pc = "idle"
    /\ pc' = "scan"
    /\ forums' = << >>
    /\ scan_kwargs' = NoKey
    /\ start_key' = NoKey
    /\ done' = FALSE
    /\ sent' = << >>
    /\ got' = << >>
    /\ empties' = 0
    /\ last' = Outcome("scan_forums", "", << >>, "running", NoFault, 0, << >>)
    /\ prev' = Summary(last)
    /\ UNCHANGED << table, tables >>

\* scan_forums ends by an exception: its locals are gone.
ScanReset ==
    /\ pc' = "idle"
    /\ forums' = << >>
    /\ scan_kwargs' = NoKey
    /\ start_key' = NoKey
    /\ done' = FALSE
    /\ sent' = << >>
    /\ got' = << >>
    /\ empties' = 0

\* Lines 143-154: one round of the loop: one scan request.  n and more are
\* the service's choice of page, f the fault it answers with.
scan_iter(n, more, f) ==
    /\ pc = "scan"
    /\ ~done
    /\ n = 0 => empties < MaxEmptyPages
    /\ UNCHANGED << table, tables >>
    /\ IF table = None
       THEN /\ FinishScan(None, "AttributeError", NoFault, Len(sent), << >>)
            /\ ScanReset
       ELSE LET kwargs == NextKwargs(scan_kwargs, start_key)
                code == Code(table, f)
                response == ScanResponse(table, kwargs, n, more)
            IN  IF code # NoFault
                THEN /\ FinishScan(table, "ClientError", code, Len(sent) + 1, << >>)
                     /\ ScanReset
                ELSE /\ scan_kwargs' = kwargs
                     /\ forums' = Extend(forums, response.Items)
                     /\ start_key' = response.LastEvaluatedKey
                     /\ done' = IsDone(response.LastEvaluatedKey)
                     /\ sent' = Append(sent, kwargs)
                     /\ got' = Append(got, response.LastEvaluatedKey)
                     /\ empties' = IF n = 0 THEN empties + 1 ELSE empties
                     /\ UNCHANGED << pc, last, prev >>

\* Line 156: the loop is over, scan_forums returns forums.
scan_return ==
    /\ pc = "scan"
    /\ done
    /\ FinishScan(table, "ok", NoFault, Len(sent), forums)
    /\ ScanReset
    /\ UNCHANGED << table, tables >>

\* ----------------------------------------------- the class, used freely

\* The table the record operations are exercised on.
ApiTables == {"Forum"}

\* The contents of ./sampledata/Forum.json (line 247), which
\* get_sample_forum_data returns: two records, "Amazon DynamoDB" and
\* "SQL server", each with the key and the four attributes.
SampleData ==
    << Item("Amazon DynamoDB", "Amazon Web Services", 4, 2, 1000),
       Item("SQL server", "Databases", 7, 5, 3000) >>

\* The batches write_batch is given.
Batches ==
    { << >>, SampleData, << Item("Amazon S3", "Amazon Web Services", 4, 2, 1000) >> }

NoCall == [op |-> "none", arg |-> "", attrs |-> << >>, outcome |-> "ok",
           code |-> NoFault, nreq |-> 0, result |-> << >>,
           was |-> None, had |-> FALSE]

\* After Forum(dyn_resource) (lines 16-17): no handle; no table yet.
Init ==
    /\ table = None
    /\ tables = [t \in TableNames |-> NoTable]
    /\ pc = "idle"
    /\ forums = << >>
    /\ scan_kwargs = NoKey
    /\ start_key = NoKey
    /\ done = FALSE
    /\ sent = << >>
    /\ got = << >>
    /\ empties = 0
    /\ last = NoCall
    /\ prev = Summary(NoCall)
    /\ mpc = "api"
    /\ forum_data = << >>
    /\ forums_exists = FALSE
    /\ calls = << >>

\* A call of a method that is one step, by a caller that is not the script.
Api(A) ==
    /\ mpc = "api"
    /\ pc = "idle"
    /\ A
    /\ UNCHANGED << pc, scanvars, mainvars >>

ApiExists == \E n \in ApiTables, f \in Faults : Api(exists(n, f))
ApiCreateTable ==
    \E n \in ApiTables, f1 \in Faults, f2 \in Faults, made \in BOOLEAN :
        /\ f2 = NoFault => made
        /\ Api(create_table(n, f1, f2, made))
ApiDeleteTable == \E f \in Faults : Api(delete_table(f))
ApiWriteBatch == \E recs \in Batches, f \in Faults : Api(write_batch(recs, f))
ApiGetForum == \E k \in Keys, f \in Faults : Api(get_forum(k, f))
ApiAddForum ==
    \E k \in Keys, a \in AttrTuples, f \in Faults :
        Api(add_forum(k, a[1], a[2], a[3], a[4], f))
ApiUpdateForum ==
    \E k \in Keys, a \in AttrTuples, f \in Faults :
        Api(update_forum(k, a[1], a[2], a[3], a[4], f))
ApiDeleteForum == \E k \in Keys, f \in Faults : Api(delete_forum(k, f))
ApiScanBegin == mpc = "api" /\ scan_begin /\ UNCHANGED mainvars
ApiScanIter ==
    \E n \in 0..MaxPageSize, more \in BOOLEAN, f \in Faults :
        mpc = "api" /\ scan_iter(n, more, f) /\ UNCHANGED mainvars
ApiScanReturn == mpc = "api" /\ scan_return /\ UNCHANGED mainvars

Next ==
    \/ ApiExists
    \/ ApiCreateTable
    \/ ApiDeleteTable
    \/ ApiWriteBatch
    \/ ApiGetForum
    \/ ApiAddForum
    \/ ApiUpdateForum
    \/ ApiDeleteForum
    \/ ApiScanBegin
    \/ ApiScanIter
    \/ ApiScanReturn

Spec == Init /\ [][Next]_vars

\* The lifecycle methods alone, over two table names.
LifeExists == \E n \in TableNames, f \in Faults : Api(exists(n, f))
LifeCreateTable ==
    \E n \in TableNames, f1 \in Faults, f2 \in Faults, made \in BOOLEAN :
        /\ f2 = NoFault => made
        /\ Api(create_table(n, f1, f2, made))
LifeDeleteTable == \E f \in Faults : Api(delete_table(f))

LifeNext ==
    \/ LifeExists
    \/ LifeCreateTable
    \/ LifeDeleteTable

LifeSpec == Init /\ [][LifeNext]_vars

\* -------------------------------------------------------- the demo script

\* Every content a table can have: some keys, each with an item.
RECURSIVE Contents(_)
Contents(ks) ==
    IF ks = {} THEN { << >> }
    ELSE LET k == CHOOSE x \in ks : TRUE
         IN  UNION { {c} \cup { PutInto(c, Item(k, a[1], a[2], a[3], a[4])) : a \in AttrTuples }
                     : c \in Contents(ks \ {k}) }

\* The script starts (lines 245-255): a new Forum; the service holds the
\* table "Forum" with some content, or does not hold it.
MainInit ==
    /\ table = None
    /\ \E st \in { NoTable } \cup { [exists |-> TRUE, items |-> c] : c \in Contents(Keys) } :
          tables = [t \in TableNames |-> IF t = "Forum" THEN st ELSE NoTable]
    /\ pc = "idle"
    /\ forums = << >>
    /\ scan_kwargs = NoKey
    /\ start_key = NoKey
    /\ done = FALSE
    /\ sent = << >>
    /\ got = << >>
    /\ empties = 0
    /\ last = NoCall
    /\ prev = Summary(NoCall)
    /\ mpc = "exists"
    /\ forum_data = << >>
    /\ forums_exists = FALSE
    /\ calls = << >>

\* A statement of the script that calls a one-step method: the script goes
\* on to the next statement when the call returns, and ends when it raises.
Call(at, op, A, to) ==
    /\ mpc = at
    /\ pc = "idle"
    /\ A
    /\ calls' = Append(calls, op)
    /\ mpc' = IF last'.outcome = "ok" THEN to ELSE "aborted"
    /\ UNCHANGED << pc, scanvars >>

\* Lines 257-258: forums_exists = forums.exists(table_name).
MainExists ==
    \E f \in Faults :
        /\ mpc = "exists"
        /\ pc = "idle"
        /\ exists("Forum", f)
        /\ calls' = Append(calls, "exists")
        /\ forums_exists' = IF last'.outcome = "ok" THEN last'.result ELSE forums_exists
        /\ mpc' = IF last'.outcome # "ok" THEN "aborted"
                  ELSE IF last'.result THEN "load" ELSE "create"
        /\ UNCHANGED << pc, scanvars, forum_data >>

\* Line 260: forums.create_table(table_name).
MainCreateTable ==
    \E f1 \in Faults, f2 \in Faults, made \in BOOLEAN :
        /\ f2 = NoFault => made
        /\ Call("create", "create_table", create_table("Forum", f1, f2, made), "load")
        /\ UNCHANGED << forum_data, forums_exists >>

\* Line 264: forum_data = forums.get_sample_forum_data(forum_file_name)
\* (lines 102-111): the file's content, or FileNotFoundError re-raised.
MainLoad ==
    \E found \in BOOLEAN :
        /\ Call("load", "get_sample_forum_data",
                /\ Finish("get_sample_forum_data", "", << >>,
                          IF found THEN "ok" ELSE "FileNotFoundError", NoFault, 0, << >>)
                /\ UNCHANGED << table, tables >>,
                "write")
        /\ forum_data' = IF found THEN SampleData ELSE forum_data
        /\ UNCHANGED forums_exists

\* Line 266.
MainWriteBatch ==
    \E f \in Faults :
        /\ Call("write", "write_batch", write_batch(forum_data, f), "get")
        /\ UNCHANGED << forum_data, forums_exists >>

\* Line 271.
MainGetForum ==
    \E f \in Faults :
        /\ Call("get", "get_forum", get_forum("Amazon DynamoDB", f), "add")
        /\ UNCHANGED << forum_data, forums_exists >>

\* Line 277.
MainAddForum ==
    \E f \in Faults :
        /\ Call("add", "add_forum",
                add_forum("SQL server", "Amazon Web Services", 4, 2, 1000, f), "scan1")
        /\ UNCHANGED << forum_data, forums_exists >>

\* Lines 282 and 302: releases = forums.scan_forums(), the call.
MainScanBegin ==
    /\ mpc \in {"scan1", "scan2"}
    /\ scan_begin
    /\ calls' = Append(calls, "scan_forums")
    /\ UNCHANGED << mpc, forum_data, forums_exists >>

\* The rounds of its loop; the script ends when one raises.
MainScanIter ==
    \E n \in 0..MaxPageSize, more \in BOOLEAN, f \in Faults :
        /\ mpc \in {"scan1", "scan2"}
        /\ scan_iter(n, more, f)
        /\ mpc' = IF pc' = "idle" THEN "aborted" ELSE mpc
        /\ UNCHANGED << forum_data, forums_exists, calls >>

\* Its return: releases is last.result until the next call.
MainScanReturn ==
    /\ mpc \in {"scan1", "scan2"}
    /\ scan_return
    /\ mpc' = IF mpc = "scan1" THEN "update" ELSE "list"
    /\ UNCHANGED << forum_data, forums_exists, calls >>

\* Line 291.
MainUpdateForum ==
    \E f \in Faults :
        /\ Call("update", "update_forum",
                update_forum("SQL server", "Amazon Web Services", 4, 2, 2000, f), "delete")
        /\ UNCHANGED << forum_data, forums_exists >>

\* Line 297.
MainDeleteForum ==
    \E f \in Faults :
        /\ Call("delete", "delete_forum", delete_forum("SQL server", f), "scan2")
        /\ UNCHANGED << forum_data, forums_exists >>

\* Line 313: list(dynamodb.tables.all()): one request, on no table; its
\* error is caught nowhere.
MainListTables ==
    \E f \in Faults :
        /\ Call("list", "list_tables",
                /\ Finish("list_tables", "", << >>,
                          IF f = NoFault THEN "ok" ELSE "ClientError", f, 1, << >>)
                /\ UNCHANGED << table, tables >>,
                "drop")
        /\ UNCHANGED << forum_data, forums_exists >>

\* Line 316.
MainDeleteTable ==
    \E f \in Faults :
        /\ Call("drop", "delete_table", delete_table(f), "done")
        /\ UNCHANGED << forum_data, forums_exists >>

MainNext ==
    \/ MainExists
    \/ MainCreateTable
    \/ MainLoad
    \/ MainWriteBatch
    \/ MainGetForum
    \/ MainAddForum
    \/ MainScanBegin
    \/ MainScanIter
    \/ MainScanReturn
    \/ MainUpdateForum
    \/ MainDeleteForum
    \/ MainListTables
    \/ MainDeleteTable

MainSpec == MainInit /\ [][MainNext]_vars

\* ------------------------------------------------------------- properties

\* The four attributes of an item, as a tuple.
AttrsOf(it) == << it.Category, it.Messages, it.Threads, it.Views >>

\* get_forum ran right after a successful op on the same key, and its
\* request was not failed.
GetAfter(op) ==
    /\ last.op = "get_forum"
    /\ prev.op = op
    /\ prev.arg = last.arg
    /\ last.code = NoFault

\* C1: add_forum(K, category, messages, threads, views) followed at once by
\* get_forum(K), on a handle and with no service fault, returns the record
\* whose Name is K and whose Category, Messages, Threads and Views are the
\* values passed to add_forum, whether or not K was in the table before.
C1_AddThenGet ==
    GetAfter("add_forum") =>
        /\ last.outcome = "ok"
        /\ last.result = [Name |-> last.arg, Category |-> prev.attrs[1],
                          Messages |-> prev.attrs[2], Threads |-> prev.attrs[3],
                          Views |-> prev.attrs[4]]

\* C1's case: a get after an add that overwrote a record of the same key.
C1_Witness ==
    /\ GetAfter("add_forum")
    /\ prev.had
    /\ last.outcome = "ok"

\* C2: for a key K in the table, update_forum(K, ...) returns exactly the
\* fields Category, Messages, Threads and Views with the new values (not
\* Name), and a get_forum(K) issued next returns a record with the four new
\* values and with Name still K.
C2_UpdateReturnsNew ==
    /\ (last.op = "update_forum" /\ last.had /\ last.outcome = "ok") =>
          last.result = [Category |-> last.attrs[1], Messages |-> last.attrs[2],
                         Threads |-> last.attrs[3], Views |-> last.attrs[4]]
    /\ (GetAfter("update_forum") /\ prev.had) =>
          /\ last.outcome = "ok"
          /\ last.result.Name = last.arg
          /\ AttrsOf(last.result) = prev.attrs

\* C2's case: a get after an update of a key that was there.
C2_Witness ==
    /\ GetAfter("update_forum")
    /\ prev.had
    /\ last.outcome = "ok"

\* C3: delete_forum(K) followed by get_forum(K) yields an absent or empty
\* result, get_forum returning to its caller and not raising; and a second
\* delete_forum(K), on the key now absent, does not raise and leaves the
\* table as it is.
C3_DeleteThenGetReturns ==
    /\ GetAfter("delete_forum") => last.outcome = "ok"
    /\ (last.op = "delete_forum" /\ prev.op = "delete_forum" /\ prev.arg = last.arg
        /\ last.code = NoFault) =>
          /\ last.outcome = "ok"
          /\ ~last.had
          /\ last.arg \notin KeysOf(table)

\* C4: with the table not modified during the scan, scan_forums on a table
\* of N records returns N records, one for each key of the table, none
\* twice and none left out, whatever pages the service cuts the scan into
\* (pages that are empty and carry a continuation token among them).
C4_ScanReturnsAll ==
    (last.op = "scan_forums" /\ last.outcome = "ok") =>
        /\ Len(last.result) = Cardinality(KeysOf(table))
        /\ { last.result[i].Name : i \in 1..Len(last.result) } = KeysOf(table)
        /\ \A i \in 1..Len(last.result) :
              last.result[i] = tables[table].items[last.result[i].Name]

\* C4's case: a scan of three records that took more requests than there
\* are records: one page a record and an empty page.
C4_Witness ==
    /\ last.op = "scan_forums"
    /\ last.outcome = "ok"
    /\ Len(last.result) = Cardinality(Keys)
    /\ last.nreq > Cardinality(Keys)

\* C5: exists(name) returns True and sets the handle to the named table
\* when the load succeeds; returns False, not raising, on
\* ResourceNotFoundException, the handle left as it was; and propagates
\* every other service error, the handle left as it was.  So from a handle
\* of None, exists returns True exactly when the call set the handle.
C5_Exists ==
    last.op = "exists" =>
        /\ last.nreq = 1
        /\ last.code = NoFault =>
              last.outcome = "ok" /\ last.result = TRUE /\ table = last.arg
        /\ last.code = "ResourceNotFoundException" =>
              last.outcome = "ok" /\ last.result = FALSE /\ table = last.was
        /\ last.code \notin {NoFault, "ResourceNotFoundException"} =>
              last.outcome = "ClientError" /\ table = last.was
        /\ (last.was = None /\ last.outcome = "ok") =>
              (last.result = TRUE <=> table # None)

\* C5's case: exists answered False with a handle of another table cached.
C5_Witness ==
    /\ last.op = "exists"
    /\ last.code = "ResourceNotFoundException"
    /\ last.was # None
    /\ last.was # last.arg

\* C6: delete_table makes one drop request on the cached handle; when the
\* drop succeeds the handle is None afterwards (and the table is gone), and
\* when the service rejects it the error propagates and the handle is the
\* one it was.
C6_DeleteTable ==
    (last.op = "delete_table" /\ last.was # None) =>
        /\ last.nreq = 1
        /\ last.arg = last.was
        /\ last.code = NoFault =>
              last.outcome = "ok" /\ table = None /\ ~tables[last.was].exists
        /\ last.code # NoFault =>
              last.outcome = "ClientError" /\ table = last.was

\* C6's case: a drop the service rejected.
C6_Witness ==
    /\ last.op = "delete_table"
    /\ last.was # None
    /\ last.code = "InternalServerError"

\* The operations that make one request.
OneRequest ==
    {"write_batch", "get_forum", "add_forum", "update_forum", "delete_forum",
     "delete_table"}

\* C7: when a request of create_table, write_batch, get_forum, scan_forums,
\* add_forum, update_forum, delete_forum or delete_table fails with a
\* service error, the operation raises it and makes no request after it;
\* the one service error swallowed is the not-found code in exists.
C7_ErrorsPropagate ==
    last.code # NoFault =>
        IF last.op = "exists" /\ last.code = "ResourceNotFoundException"
        THEN last.outcome = "ok"
        ELSE /\ last.outcome \in {"ClientError", "WaiterError"}
             /\ pc = "idle"
             /\ last.op \in OneRequest => last.nreq = 1
             /\ (last.op = "create_table" /\ last.outcome = "ClientError") => last.nreq = 1
             /\ last.op = "scan_forums" => last.nreq >= 1

\* C7's case: update_forum's request failed.
C7_Witness ==
    /\ last.op = "update_forum"
    /\ last.code = "InternalServerError"
    /\ last.outcome = "ClientError"

\* C8, as claimed: update_forum(K, ...) fails with a service error when K
\* is absent from the table, and no record with key K exists afterwards.
C8_UpdateAbsentFails ==
    (last.op = "update_forum" /\ last.was # None /\ ~last.had) =>
        /\ last.outcome = "ClientError"
        /\ last.arg \notin KeysOf(table)

\* C8, amended: update_forum(K, ...) with K absent from the table fails
\* only when its request fails, and then no record with key K exists
\* afterwards; when the request is served it returns the four fields and
\* the table holds a record with key K and the four values.
C8_UpdateAbsentCreates ==
    (last.op = "update_forum" /\ last.was # None /\ ~last.had) =>
        /\ last.code # NoFault =>
              last.outcome = "ClientError" /\ last.arg \notin KeysOf(table)
        /\ last.code = NoFault =>
              /\ last.outcome = "ok"
              /\ last.arg \in KeysOf(table)
              /\ tables[table].items[last.arg] =
                    [Name |-> last.arg, Category |-> last.attrs[1],
                     Messages |-> last.attrs[2], Threads |-> last.attrs[3],
                     Views |-> last.attrs[4]]
              /\ AttrsOf(last.result) = last.attrs

\* C8's case: an update of an absent key that the service served.
C8_Witness ==
    /\ last.op = "update_forum"
    /\ ~last.had
    /\ last.outcome = "ok"

\* The order of the script's calls, with and without create_table.
MainOrder(create) ==
    <<"exists">> \o (IF create THEN <<"create_table">> ELSE << >>) \o
    <<"get_sample_forum_data", "write_batch", "get_forum", "add_forum",
      "scan_forums", "update_forum", "delete_forum", "scan_forums",
      "list_tables", "delete_table">>

\* The positions of the script at which a record operation is called next.
RecordOps == {"write", "get", "add", "scan1", "update", "delete", "scan2"}

\* C9: the script calls exists, create_table (only when exists returned
\* False), get_sample_forum_data, write_batch, get_forum, add_forum,
\* scan_forums, update_forum, delete_forum, scan_forums, the listing of
\* tables and delete_table, in this order; it ends early only on a service
\* fault or a missing file; the handle is not None at a record operation;
\* "SQL server" is not among the keys of the second scan; and it ends with
\* the table dropped and the handle None, whether or not the table existed.
C9_Demo ==
    /\ LET create == Len(calls) >= 2 /\ calls[2] = "create_table"
       IN  /\ Len(calls) <= Len(MainOrder(create))
           /\ calls = SubSeq(MainOrder(create), 1, Len(calls))
           /\ mpc = "create" => ~forums_exists
           /\ mpc \notin {"exists", "create", "aborted"} => (create <=> ~forums_exists)
    /\ mpc = "aborted" => (last.code # NoFault \/ last.outcome = "FileNotFoundError")
    /\ mpc \in RecordOps \cup {"drop"} => table = "Forum"
    /\ mpc = "list" =>
          \A i \in 1..Len(last.result) : last.result[i].Name # "SQL server"
    /\ mpc = "done" =>
          /\ calls = MainOrder(~forums_exists)
          /\ table = None
          /\ ~tables["Forum"].exists

\* C9's case: the script ran to its end on a table that was not there.
C9_Witness ==
    /\ mpc = "done"
    /\ ~forums_exists

\* C10: the first scan request carries no continuation token; after every
\* response that carries one, whatever its value, the next request carries
\* that token as its exclusive start key; no request follows a response
\* that carries none, and the loop ends on such a response.
C10_ScanProtocol ==
    pc = "scan" =>
        /\ Len(sent) = Len(got)
        /\ Len(sent) >= 1 => IsNone(sent[1])
        /\ \A i \in 1..(Len(sent) - 1) : ~IsNone(got[i]) /\ sent[i + 1] = got[i]
        /\ done <=> (Len(got) >= 1 /\ IsNone(got[Len(got)]))

====
